---- MODULE Spec2Model ----
(***************************************************************************)
(* Model of WatermarkTransform (src/Processors/Transforms/                 *)
(* WatermarkTransform.cpp): one stage instance, the chunks the pipeline    *)
(* driver passes to transform, the destructor and the calls the            *)
(* StorageWindowView receives from it; a second stage on the same store;   *)
(* FakeDiskTransaction (src/Disks/FakeDiskTransaction.h) over a small      *)
(* disk; TableExpressionColumns (src/Planner/PlannerContext.h).            *)
(***************************************************************************)
EXTENDS Integers, Sequences, FiniteSets, Bags, TLC

\* ------------------------------------------------------------------ bounds
\* Largest window-end value a row may hold (UInt32 values 0..MaxTs).
MaxTs == 2
\* Largest number of rows of a chunk.
MaxRows == 2
\* Largest number of chunks the driver passes to one stage.
MaxChunks == 3

\* Largest number of transform calls made on a stage already destroyed.
MaxCallsAfterDtor == 1

\* Largest number of operations called on one transaction, and of commits.
MaxOps == 3

\* Largest number of calls made on one TableExpressionColumns.
MaxCalls == 4

\* Values of the window-end column (UInt32, only compared, never added).
Values == 0 .. MaxTs
\* max_timestamp_ given to the constructor: 0 ("do not report") or a value no row holds.
SeedValues == {0, MaxTs + 1}
\* lateness_upper_bound_ given to the constructor: 0 disables late tracking.
BoundValues == 0 .. MaxTs

VARIABLES
    block_header,          \* WatermarkTransform::block_header: the column names
    window_column_name,    \* WatermarkTransform::window_column_name
    max_timestamp,         \* WatermarkTransform::max_timestamp (the seed)
    lateness_upper_bound,  \* WatermarkTransform::lateness_upper_bound
    max_watermark,         \* WatermarkTransform::max_watermark
    late_signals,          \* WatermarkTransform::late_signals (a set)
    pc,                    \* "active", "dtor", "destroyed", "terminated"
    dtor_pos,              \* number of the destructor's store calls already made
    cancelled,             \* whether the pipeline was cancelled before teardown
    store_calls,           \* the calls the StorageWindowView received, in order
    consumed,              \* number of chunks passed to transform
    emitted,               \* number of chunks transform handed back
    last_in,               \* the chunk of the last transform call, as passed in
    last_out,              \* the chunk of the last transform call, as handed back
    seen                   \* window-end values of all chunks passed to transform

vars == << block_header, window_column_name, max_timestamp, lateness_upper_bound,
           max_watermark, late_signals, pc, dtor_pos, cancelled, store_calls,
           consumed, emitted, last_in, last_out, seen >>

\* The stage under a header that may not fit, and after its destruction.
VARIABLES
    header_types,          \* the column types of block_header
    raised,                \* the exception the last transform call threw, or "none"
    after_dtor             \* number of transform calls made on the destroyed stage

x_vars == << header_types, raised, after_dtor >>

\* A second stage (B) that notifies the same store.
VARIABLES
    b_max_timestamp,        \* B's max_timestamp
    b_lateness_upper_bound, \* B's lateness_upper_bound
    b_max_watermark,        \* B's max_watermark
    b_late_signals,         \* B's late_signals
    b_pc,                   \* "none" (no stage B), "active", "dtor", "destroyed"
    b_dtor_pos,             \* number of B's destructor calls already made
    b_consumed,             \* number of chunks passed to B's transform
    b_rows                  \* bag of the window-end values of all chunks passed to B

b_vars == << b_max_timestamp, b_lateness_upper_bound, b_max_watermark,
             b_late_signals, b_pc, b_dtor_pos, b_consumed, b_rows >>

\* A FakeDiskTransaction and its disk.
VARIABLES
    disk,                  \* FakeDiskTransaction::disk: the disk the transaction wraps
    ref_disk,              \* a disk that gets the same operations directly
    tx_ops,                \* number of operations called on the transaction
    disk_calls,            \* number of calls the wrapped disk received
    last_op,               \* the last operation called on the transaction
    last_disk_call,        \* the last call the wrapped disk received
    commits                \* number of commit calls

d_vars == << disk, ref_disk, tx_ops, disk_calls, last_op, last_disk_call, commits >>

\* A TableExpressionColumns.
VARIABLES
    table_columns,                    \* TableExpressionColumns::columns (a list)
    columns_names,                    \* TableExpressionColumns::columns_names
    alias_columns_names,              \* TableExpressionColumns::alias_columns_names
    column_name_to_column_identifier, \* the map, a function on its keys
    thrown,                           \* the exception of the last call, or "none"
    calls,                            \* number of calls made on the object
    first_identifier,                 \* name -> identifier of its first successful add
    last_call                         \* the last call made: method and arguments

t_vars == << table_columns, columns_names, alias_columns_names,
             column_name_to_column_identifier, thrown, calls, first_identifier,
             last_call >>

\* ------------------------------------------------------------- helpers
Range(s) == { s[i] : i \in 1 .. Len(s) }

Max(S) == CHOOSE m \in S : \A x \in S : x <= m

\* All sequences over S of length n.
SeqsOfLen(S, n) == [1 .. n -> S]

\* ------------------------------------------------------------- chunks
\* The header of the stage: a key column and the window-end column.
Header == << "key", "w_end" >>

\* The types of the header's columns.
HeaderTypes == << "UInt64", "UInt32" >>

\* A chunk: a row count and one column (a sequence of values) per header column.
\* The key column of row i holds 10 + i; the window-end column is free.
MakeChunk(wend) ==
    [ num_rows |-> Len(wend),
      columns  |-> << [i \in 1 .. Len(wend) |-> 10 + i], wend >> ]

Chunks == { MakeChunk(w) : w \in UNION { SeqsOfLen(Values, n) : n \in 0 .. MaxRows } }

EmptyChunk == [ num_rows |-> 0, columns |-> << >> ]

\* Block::getPositionByName: the position of the column called name.
getPositionByName(header, name) ==
    CHOOSE i \in 1 .. Len(header) : header[i] = name

\* Block::has: whether the header holds a column called name;
\* getPositionByName throws when it does not.
HeaderHas(header, name) ==
    \E i \in 1 .. Len(header) : header[i] = name

\* Chunk::detachColumns: hands the columns out and leaves the chunk empty.
detachColumns(chunk) ==
    [ columns |-> chunk.columns, chunk |-> EmptyChunk ]

\* Chunk::setColumns: the chunk holds these columns and this row count.
setColumns(columns, num_rows) ==
    [ num_rows |-> num_rows, columns |-> columns ]

\* ----------------------------------------------------------- the store
\* A call of a StorageWindowView method by the stage; ok: it returned normally.
Call(method, arg) == [ method |-> method, arg |-> arg, ok |-> TRUE ]

\* ---------------------------------------------------------- transform
\* Mutant: the comparison of line 46 turned round.
NewWatermark_flipped(wm, ts) ==
    IF ts < wm THEN ts ELSE wm

\* Mutant: line 47 without the test of line 46 (the last value wins).
NewWatermark_lastWins(wm, ts) ==
    ts

\* Line 46-47: if (ts > max_watermark) max_watermark = ts;
NewWatermark(wm, ts) ==
    IF ts > wm THEN ts ELSE wm

\* Mutant: line 48 with < for <=.
IsLate_strict(ts) ==
    lateness_upper_bound # 0 /\ ts < lateness_upper_bound

\* Mutant: line 48 without the comparison with the bound.
IsLate_noCutoff(ts) ==
    lateness_upper_bound # 0

\* Line 48: lateness_upper_bound != 0 && ts <= lateness_upper_bound
IsLate(ts) ==
    lateness_upper_bound # 0 /\ ts <= lateness_upper_bound

\* Line 48-49: if (...) late_signals.insert(ts);
NewLateSignals(ls, ts) ==
    IF IsLate(ts) THEN ls \cup {ts} ELSE ls

\* Mutant: the loop looks at the first row of the chunk only.
Loop_firstRowOnly(wend_data, acc) ==
    IF wend_data = << >>
    THEN acc
    ELSE [ wm |-> NewWatermark(acc.wm, Head(wend_data)),
           ls |-> NewLateSignals(acc.ls, Head(wend_data)) ]

\* Lines 44-50: the loop over wend_data, from the state acc = [wm, ls].
RECURSIVE Loop(_, _)
Loop(wend_data, acc) ==
    IF wend_data = << >>
    THEN acc
    ELSE Loop(Tail(wend_data),
              [ wm |-> NewWatermark(acc.wm, Head(wend_data)),
                ls |-> NewLateSignals(acc.ls, Head(wend_data)) ])

\* Lines 41-43: the data of the window column of the detached columns.
WendData(columns) ==
    columns[getPositionByName(block_header, window_column_name)]

\* The header holds the window column and it is a UInt32 column: line 41
\* finds the position and the static_cast of line 43 is right.
SchemaFits ==
    /\ HeaderHas(block_header, window_column_name)
    /\ header_types[getPositionByName(block_header, window_column_name)] = "UInt32"

\* Mutant: line 52 left out (the columns are never given back).
ForwardedChunk_notReattached(chunk) ==
    detachColumns(chunk).chunk

\* Lines 38-39, 52: the chunk as transform leaves it.
ForwardedChunk(chunk) ==
    LET num_rows == chunk.num_rows
        columns  == detachColumns(chunk).columns
    IN  setColumns(columns, num_rows)

\* Mutant: transform reports every watermark to the store as it goes.
transform_notifies(chunk) ==
    /\ pc = "active"
    /\ consumed < MaxChunks
    /\ SchemaFits
    /\ LET columns == detachColumns(chunk).columns
           acc     == Loop(WendData(columns),
                           [ wm |-> max_watermark, ls |-> late_signals ])
       IN  /\ max_watermark' = acc.wm
           /\ late_signals' = acc.ls
           /\ store_calls' = Append(store_calls, Call("updateMaxWatermark", acc.wm))
    /\ last_in' = chunk
    /\ last_out' = ForwardedChunk(chunk)
    /\ consumed' = consumed + 1
    /\ emitted' = emitted + 1
    /\ seen' = seen \cup Range(chunk.columns[getPositionByName(Header, "w_end")])
    /\ UNCHANGED << x_vars, b_vars, d_vars, t_vars >>
    /\ UNCHANGED << block_header, window_column_name, max_timestamp,
                    lateness_upper_bound, pc, dtor_pos, cancelled >>

\* WatermarkTransform::transform(chunk), called by the pipeline driver.
transform(chunk) ==
    /\ pc = "active"
    /\ consumed < MaxChunks
    /\ SchemaFits
    /\ LET columns == detachColumns(chunk).columns
           acc     == Loop(WendData(columns),
                           [ wm |-> max_watermark, ls |-> late_signals ])
       IN  /\ max_watermark' = acc.wm
           /\ late_signals' = acc.ls
    /\ last_in' = chunk
    /\ last_out' = ForwardedChunk(chunk)
    /\ consumed' = consumed + 1
    /\ emitted' = emitted + 1
    /\ seen' = seen \cup Range(chunk.columns[getPositionByName(Header, "w_end")])
    /\ UNCHANGED << x_vars, b_vars, d_vars, t_vars >>
    /\ UNCHANGED << block_header, window_column_name, max_timestamp,
                    lateness_upper_bound, pc, dtor_pos, cancelled, store_calls >>

\* --------------------------------------------------------- destructor
\* Mutant: the watermark is reported before the max timestamp.
DestructorCalls_reordered ==
       (IF max_watermark # 0
        THEN << Call("updateMaxWatermark", max_watermark) >> ELSE << >>)
    \o (IF max_timestamp # 0
        THEN << Call("updateMaxTimestamp", max_timestamp) >> ELSE << >>)
    \o (IF lateness_upper_bound # 0
        THEN << Call("addFireSignal", late_signals) >> ELSE << >>)

\* Mutant: updateMaxTimestamp is given max_watermark.
DestructorCalls_wrongArgument ==
       (IF max_timestamp # 0
        THEN << Call("updateMaxTimestamp", max_watermark) >> ELSE << >>)
    \o (IF max_watermark # 0
        THEN << Call("updateMaxWatermark", max_watermark) >> ELSE << >>)
    \o (IF lateness_upper_bound # 0
        THEN << Call("addFireSignal", late_signals) >> ELSE << >>)

\* Mutant: a cancelled stage reports nothing.
DestructorCalls_skippedOnCancel ==
    IF cancelled
    THEN << >>
    ELSE    (IF max_timestamp # 0
             THEN << Call("updateMaxTimestamp", max_timestamp) >> ELSE << >>)
         \o (IF max_watermark # 0
             THEN << Call("updateMaxWatermark", max_watermark) >> ELSE << >>)
         \o (IF lateness_upper_bound # 0
             THEN << Call("addFireSignal", late_signals) >> ELSE << >>)

\* Mutant: late_signals is shared by all stages (as a static member would be).
DestructorCalls_sharedLateSignals ==
       (IF max_timestamp # 0
        THEN << Call("updateMaxTimestamp", max_timestamp) >> ELSE << >>)
    \o (IF max_watermark # 0
        THEN << Call("updateMaxWatermark", max_watermark) >> ELSE << >>)
    \o (IF lateness_upper_bound # 0
        THEN << Call("addFireSignal", late_signals \cup b_late_signals) >> ELSE << >>)

\* Lines 28-33: the store calls of ~WatermarkTransform, in order.
DestructorCalls ==
       (IF max_timestamp # 0
        THEN << Call("updateMaxTimestamp", max_timestamp) >> ELSE << >>)
    \o (IF max_watermark # 0
        THEN << Call("updateMaxWatermark", max_watermark) >> ELSE << >>)
    \o (IF lateness_upper_bound # 0
        THEN << Call("addFireSignal", late_signals) >> ELSE << >>)

\* The pipeline drops the stage: after the last chunk (c = FALSE) or on
\* cancellation (c = TRUE); the destructor starts either way.
DtorBegin(c) ==
    /\ pc = "active"
    /\ pc' = "dtor"
    /\ cancelled' = c
    /\ dtor_pos' = 0
    /\ UNCHANGED << x_vars, b_vars, d_vars, t_vars >>
    /\ UNCHANGED << block_header, window_column_name, max_timestamp,
                    lateness_upper_bound, max_watermark, late_signals, store_calls,
                    consumed, emitted, last_in, last_out, seen >>

\* The next store call of the destructor returns normally.
DtorCall ==
    /\ pc = "dtor"
    /\ dtor_pos < Len(DestructorCalls)
    /\ store_calls' = Append(store_calls, DestructorCalls[dtor_pos + 1])
    /\ dtor_pos' = dtor_pos + 1
    /\ UNCHANGED << x_vars, b_vars, d_vars, t_vars >>
    /\ UNCHANGED << block_header, window_column_name, max_timestamp,
                    lateness_upper_bound, max_watermark, late_signals, pc, cancelled,
                    consumed, emitted, last_in, last_out, seen >>

\* The destructor returns: the stage no longer exists.
DtorEnd ==
    /\ pc = "dtor"
    /\ dtor_pos = Len(DestructorCalls)
    /\ pc' = "destroyed"
    /\ UNCHANGED << x_vars, b_vars, d_vars, t_vars >>
    /\ UNCHANGED << block_header, window_column_name, max_timestamp,
                    lateness_upper_bound, max_watermark, late_signals, dtor_pos,
                    cancelled, store_calls, consumed, emitted, last_in, last_out, seen >>

\* The next store call of the destructor throws. The destructor has no handler
\* and is noexcept, so the exception ends the process (std::terminate).
DtorCallThrows ==
    /\ pc = "dtor"
    /\ dtor_pos < Len(DestructorCalls)
    /\ store_calls' = Append(store_calls,
                             [ DestructorCalls[dtor_pos + 1] EXCEPT !.ok = FALSE ])
    /\ pc' = "terminated"
    /\ UNCHANGED << x_vars, b_vars, d_vars, t_vars >>
    /\ UNCHANGED << block_header, window_column_name, max_timestamp,
                    lateness_upper_bound, max_watermark, late_signals, dtor_pos,
                    cancelled, consumed, emitted, last_in, last_out, seen >>

\* ------------------------------------------------------ a second stage
\* The bag of the values of a sequence.
BagOfSeq(seq) ==
    [ v \in Range(seq) |-> Cardinality({ i \in 1 .. Len(seq) : seq[i] = v }) ]

\* A call of a StorageWindowView method by stage B.
CallB(method, arg) == [ method |-> method, arg |-> arg, ok |-> TRUE, stage |-> "B" ]

\* Line 48 for stage B.
B_IsLate(ts) ==
    b_lateness_upper_bound # 0 /\ ts <= b_lateness_upper_bound

\* Lines 44-50 for stage B.
RECURSIVE B_Loop(_, _)
B_Loop(wend_data, acc) ==
    IF wend_data = << >>
    THEN acc
    ELSE B_Loop(Tail(wend_data),
                [ wm |-> NewWatermark(acc.wm, Head(wend_data)),
                  ls |-> IF B_IsLate(Head(wend_data))
                         THEN acc.ls \cup {Head(wend_data)} ELSE acc.ls ])

\* WatermarkTransform::transform(chunk) of stage B, whose header is Header
\* (the chunk it hands back is not recorded).
B_transform(chunk) ==
    /\ b_pc = "active"
    /\ b_consumed < MaxRows + 1
    /\ LET columns == detachColumns(chunk).columns
           acc     == B_Loop(columns[getPositionByName(Header, "w_end")],
                             [ wm |-> b_max_watermark, ls |-> b_late_signals ])
       IN  /\ b_max_watermark' = acc.wm
           /\ b_late_signals' = acc.ls
    /\ b_consumed' = b_consumed + 1
    /\ b_rows' = b_rows (+) BagOfSeq(chunk.columns[getPositionByName(Header, "w_end")])
    /\ UNCHANGED << b_max_timestamp, b_lateness_upper_bound, b_pc, b_dtor_pos >>
    /\ UNCHANGED << vars, x_vars, d_vars, t_vars >>

\* Lines 28-33 for stage B.
B_DestructorCalls ==
       (IF b_max_timestamp # 0
        THEN << CallB("updateMaxTimestamp", b_max_timestamp) >> ELSE << >>)
    \o (IF b_max_watermark # 0
        THEN << CallB("updateMaxWatermark", b_max_watermark) >> ELSE << >>)
    \o (IF b_lateness_upper_bound # 0
        THEN << CallB("addFireSignal", b_late_signals) >> ELSE << >>)

\* The pipeline of stage B drops it.
B_DtorBegin ==
    /\ b_pc = "active"
    /\ b_pc' = "dtor"
    /\ b_dtor_pos' = 0
    /\ UNCHANGED << b_max_timestamp, b_lateness_upper_bound, b_max_watermark,
                    b_late_signals, b_consumed, b_rows >>
    /\ UNCHANGED << vars, x_vars, d_vars, t_vars >>

\* The next store call of B's destructor, on the store stage A uses too.
B_DtorCall ==
    /\ b_pc = "dtor"
    /\ b_dtor_pos < Len(B_DestructorCalls)
    /\ store_calls' = Append(store_calls, B_DestructorCalls[b_dtor_pos + 1])
    /\ b_dtor_pos' = b_dtor_pos + 1
    /\ UNCHANGED << b_max_timestamp, b_lateness_upper_bound, b_max_watermark,
                    b_late_signals, b_pc, b_consumed, b_rows >>
    /\ UNCHANGED << block_header, window_column_name, max_timestamp,
                    lateness_upper_bound, max_watermark, late_signals, pc, dtor_pos,
                    cancelled, consumed, emitted, last_in, last_out, seen >>
    /\ UNCHANGED << x_vars, d_vars, t_vars >>

\* B's destructor returns.
B_DtorEnd ==
    /\ b_pc = "dtor"
    /\ b_dtor_pos = Len(B_DestructorCalls)
    /\ b_pc' = "destroyed"
    /\ UNCHANGED << b_max_timestamp, b_lateness_upper_bound, b_max_watermark,
                    b_late_signals, b_dtor_pos, b_consumed, b_rows >>
    /\ UNCHANGED << vars, x_vars, d_vars, t_vars >>

\* Chunks of at most one row.
SmallChunks == { c \in Chunks : c.num_rows <= 1 }

\* --------------------------------------------- a header that does not fit
\* The window column names the constructor may be given; only "w_end" is in Header.
WindowColumnNames == { "w_end", "w_close" }

\* The header types the constructor may be given for Header.
HeaderTypeChoices == { << "UInt64", "UInt32" >>, << "UInt64", "UInt64" >> }

\* What getData() of line 43 may yield for a column that is no ColumnUInt32.
ReinterpretedData == UNION { SeqsOfLen(Values, n) : n \in 0 .. MaxRows }

\* transform(chunk) when the header lacks the window column: lines 38-39
\* detach the columns, getPositionByName (line 41) throws, nothing else runs;
\* the exception leaves transform and the driver stops feeding the stage.
transformThrows(chunk) ==
    /\ pc = "active"
    /\ consumed < MaxChunks
    /\ ~ HeaderHas(block_header, window_column_name)
    /\ raised' = "SchemaMismatch"
    /\ pc' = "failed"
    /\ last_in' = chunk
    /\ consumed' = consumed + 1
    /\ UNCHANGED << block_header, window_column_name, max_timestamp,
                    lateness_upper_bound, max_watermark, late_signals, dtor_pos,
                    cancelled, store_calls, emitted, last_out, seen,
                    header_types, after_dtor >>
    /\ UNCHANGED << b_vars, d_vars, t_vars >>

\* transform(chunk) when the window column is no UInt32 column: the
\* static_cast of line 43 is unchecked, so the loop is undefined behaviour: it
\* runs over whatever the column's memory yields as UInt32 values, or the
\* process crashes. No exception is thrown; line 52 hands the chunk back.
transformWrongType(chunk, data) ==
    /\ pc = "active"
    /\ consumed < MaxChunks
    /\ HeaderHas(block_header, window_column_name)
    /\ header_types[getPositionByName(block_header, window_column_name)] # "UInt32"
    /\ \/ /\ LET acc == Loop(data, [ wm |-> max_watermark, ls |-> late_signals ])
             IN  /\ max_watermark' = acc.wm
                 /\ late_signals' = acc.ls
          /\ last_out' = ForwardedChunk(chunk)
          /\ emitted' = emitted + 1
          /\ UNCHANGED pc
       \/ /\ pc' = "terminated"
          /\ UNCHANGED << max_watermark, late_signals, last_out, emitted >>
    /\ last_in' = chunk
    /\ consumed' = consumed + 1
    /\ seen' = seen \cup Range(chunk.columns[getPositionByName(Header, "w_end")])
    /\ UNCHANGED << block_header, window_column_name, max_timestamp,
                    lateness_upper_bound, dtor_pos, cancelled, store_calls,
                    header_types, raised, after_dtor >>
    /\ UNCHANGED << b_vars, d_vars, t_vars >>

\* The pipeline, aborted by the exception, drops the stage.
DtorBeginAfterThrow ==
    /\ pc = "failed"
    /\ pc' = "dtor"
    /\ cancelled' = TRUE
    /\ dtor_pos' = 0
    /\ UNCHANGED << block_header, window_column_name, max_timestamp,
                    lateness_upper_bound, max_watermark, late_signals, store_calls,
                    consumed, emitted, last_in, last_out, seen, x_vars >>
    /\ UNCHANGED << b_vars, d_vars, t_vars >>

\* ------------------------------------------- calls on a destroyed stage
\* Mutant: transform tests the state of the stage and rejects the chunk.
transformAfterDestruction_rejected(chunk) ==
    /\ pc = "destroyed"
    /\ after_dtor < MaxCallsAfterDtor
    /\ after_dtor' = after_dtor + 1
    /\ raised' = "Lifecycle"
    /\ UNCHANGED << vars, header_types, b_vars, d_vars, t_vars >>

\* transform(chunk) called on a stage whose destructor has run. transform
\* tests no state (lines 36-53), so the call is undefined behaviour on a dead
\* object: the body runs on the memory the fields were in and hands the chunk
\* back, or the process crashes. No exception is thrown either way.
transformAfterDestruction(chunk) ==
    /\ pc = "destroyed"
    /\ after_dtor < MaxCallsAfterDtor
    /\ after_dtor' = after_dtor + 1
    /\ \/ /\ LET acc == Loop(WendData(detachColumns(chunk).columns),
                             [ wm |-> max_watermark, ls |-> late_signals ])
             IN  /\ max_watermark' = acc.wm
                 /\ late_signals' = acc.ls
          /\ last_in' = chunk
          /\ last_out' = ForwardedChunk(chunk)
          /\ UNCHANGED pc
       \/ /\ pc' = "terminated"
          /\ UNCHANGED << max_watermark, late_signals, last_in, last_out >>
    /\ UNCHANGED << block_header, window_column_name, max_timestamp,
                    lateness_upper_bound, dtor_pos, cancelled, store_calls,
                    consumed, emitted, seen, header_types, raised >>
    /\ UNCHANGED << b_vars, d_vars, t_vars >>

\* ------------------------------------------------- FakeDiskTransaction
\* The directories and the files (directory, name) a disk may hold.
Dirs == { "a", "b" }

Files == { << d, "x" >> : d \in Dirs }

\* A disk: the directories and the files it holds; every file is in a directory.
DiskStates ==
    { d \in [ dirs : SUBSET Dirs, files : SUBSET Files ] :
          \A f \in d.files : f[1] \in d.dirs }

\* The operations called, with their arguments.
Operations ==
         { [ op |-> o, path |-> d ] :
               o \in { "createDirectory", "createDirectories", "clearDirectory",
                       "removeDirectory", "removeRecursive" }, d \in Dirs }
    \cup { [ op |-> o, path |-> f ] :
               o \in { "writeFile", "removeFile", "removeFileIfExists" }, f \in Files }
    \cup { call \in [ op : { "moveDirectory" }, from : Dirs, to : Dirs ] :
               call.from # call.to }
    \cup { call \in [ op : { "replaceFile", "createHardLink" }, from : Files, to : Files ] :
               call.from # call.to }

\* IDisk: the disk after one operation; an operation that fails leaves it as it is.
DiskApply(d, call) ==
    CASE call.op \in { "createDirectory", "createDirectories" } ->
             [ d EXCEPT !.dirs = @ \cup {call.path} ]
      [] call.op = "clearDirectory" ->
             [ d EXCEPT !.files = { f \in @ : f[1] # call.path } ]
      [] call.op = "removeDirectory" ->
             IF \E f \in d.files : f[1] = call.path
             THEN d
             ELSE [ d EXCEPT !.dirs = @ \ {call.path} ]
      [] call.op = "removeRecursive" ->
             [ dirs |-> d.dirs \ {call.path},
               files |-> { f \in d.files : f[1] # call.path } ]
      [] call.op = "writeFile" ->
             IF call.path[1] \in d.dirs
             THEN [ d EXCEPT !.files = @ \cup {call.path} ]
             ELSE d
      [] call.op \in { "removeFile", "removeFileIfExists" } ->
             [ d EXCEPT !.files = @ \ {call.path} ]
      [] call.op = "moveDirectory" ->
             IF call.from \in d.dirs /\ call.to \notin d.dirs
             THEN [ dirs |-> (d.dirs \ {call.from}) \cup {call.to},
                    files |-> { << call.to, f[2] >> : f \in { g \in d.files : g[1] = call.from } }
                              \cup { g \in d.files : g[1] # call.from } ]
             ELSE d
      [] call.op = "replaceFile" ->
             IF call.from \in d.files /\ call.to[1] \in d.dirs
             THEN [ d EXCEPT !.files = (@ \ {call.from}) \cup {call.to} ]
             ELSE d
      [] call.op = "createHardLink" ->
             IF call.from \in d.files /\ call.to[1] \in d.dirs
             THEN [ d EXCEPT !.files = @ \cup {call.to} ]
             ELSE d

\* Lines 17-125: the disk call a method of the transaction makes: the method
\* of the same name with the same arguments, but for clearDirectory, which
\* calls disk.createDirectory (line 29).
ForwardedCall(call) ==
    IF call.op = "clearDirectory"
    THEN [ call EXCEPT !.op = "createDirectory" ]
    ELSE call

\* A method of FakeDiskTransaction is called: it calls the disk at once. The
\* same operation is applied to ref_disk directly, for comparison.
Operation(call) ==
    /\ tx_ops < MaxOps
    /\ tx_ops' = tx_ops + 1
    /\ last_op' = call
    /\ last_disk_call' = ForwardedCall(call)
    /\ disk_calls' = disk_calls + 1
    /\ disk' = DiskApply(disk, ForwardedCall(call))
    /\ ref_disk' = DiskApply(ref_disk, call)
    /\ UNCHANGED commits
    /\ UNCHANGED << vars, x_vars, b_vars, t_vars >>

\* Mutant: commit carries out the last operation (again).
commit_applies ==
    /\ commits < MaxOps
    /\ commits' = commits + 1
    /\ tx_ops > 0
    /\ disk' = DiskApply(disk, last_op)
    /\ disk_calls' = disk_calls + 1
    /\ UNCHANGED << ref_disk, tx_ops, last_op, last_disk_call >>
    /\ UNCHANGED << vars, x_vars, b_vars, t_vars >>

\* Line 15: commit() {}
commit ==
    /\ commits < MaxOps
    /\ commits' = commits + 1
    /\ UNCHANGED << disk, ref_disk, tx_ops, disk_calls, last_op, last_disk_call >>
    /\ UNCHANGED << vars, x_vars, b_vars, t_vars >>

\* ---------------------------------------------- TableExpressionColumns
\* Column names, column types and column identifiers the callers pass.
Names == { "a", "b" }

Types == { "UInt8", "String" }

Identifiers == { "t.c_0", "t.c_1" }

\* NameAndTypePair
NameAndTypePairs == [ name : Names, type : Types ]

\* std::unordered_map::emplace: inserts only when the key is absent.
emplace(map, key, value) ==
    IF key \in DOMAIN map THEN map ELSE map @@ (key :> value)

\* Lines 29-32
hasColumn(column_name) ==
    column_name \in alias_columns_names \/ column_name \in columns_names

\* Lines 39-41 and 49-51: the three insertions of a successful add.
Inserted(column, column_identifier) ==
    /\ columns_names' = columns_names \cup {column.name}
    /\ table_columns' = Append(table_columns, column)
    /\ column_name_to_column_identifier' =
           emplace(column_name_to_column_identifier, column.name, column_identifier)
    /\ first_identifier' = emplace(first_identifier, column.name, column_identifier)

\* Mutant: addColumn without the test of hasColumn.
addColumn_unchecked(column, column_identifier) ==
    /\ calls < MaxCalls
    /\ calls' = calls + 1
    /\ last_call' = [ method |-> "addColumn", name |-> column.name,
                      identifier |-> column_identifier ]
    /\ thrown' = "none"
    /\ Inserted(column, column_identifier)
    /\ UNCHANGED alias_columns_names
    /\ UNCHANGED << vars, x_vars, b_vars, d_vars >>

\* Lines 34-42
addColumn(column, column_identifier) ==
    /\ calls < MaxCalls
    /\ calls' = calls + 1
    /\ last_call' = [ method |-> "addColumn", name |-> column.name,
                      identifier |-> column_identifier ]
    /\ IF hasColumn(column.name)
       THEN /\ thrown' = "LOGICAL_ERROR"
            /\ UNCHANGED << table_columns, columns_names,
                            column_name_to_column_identifier, first_identifier >>
       ELSE /\ thrown' = "none"
            /\ Inserted(column, column_identifier)
    /\ UNCHANGED alias_columns_names
    /\ UNCHANGED << vars, x_vars, b_vars, d_vars >>

\* Mutant: for a known name the identifier is replaced by the new one.
addColumnIfNotExists_overwrites(column, column_identifier) ==
    /\ calls < MaxCalls
    /\ calls' = calls + 1
    /\ last_call' = [ method |-> "addColumnIfNotExists", name |-> column.name,
                      identifier |-> column_identifier ]
    /\ thrown' = "none"
    /\ IF hasColumn(column.name)
       THEN /\ column_name_to_column_identifier' =
                   (column.name :> column_identifier) @@ column_name_to_column_identifier
            /\ UNCHANGED << table_columns, columns_names, first_identifier >>
       ELSE Inserted(column, column_identifier)
    /\ UNCHANGED alias_columns_names
    /\ UNCHANGED << vars, x_vars, b_vars, d_vars >>

\* Lines 44-52
addColumnIfNotExists(column, column_identifier) ==
    /\ calls < MaxCalls
    /\ calls' = calls + 1
    /\ last_call' = [ method |-> "addColumnIfNotExists", name |-> column.name,
                      identifier |-> column_identifier ]
    /\ thrown' = "none"
    /\ IF hasColumn(column.name)
       THEN UNCHANGED << table_columns, columns_names,
                         column_name_to_column_identifier, first_identifier >>
       ELSE Inserted(column, column_identifier)
    /\ UNCHANGED alias_columns_names
    /\ UNCHANGED << vars, x_vars, b_vars, d_vars >>

\* Lines 54-57
addAliasColumnName(column_name) ==
    /\ calls < MaxCalls
    /\ calls' = calls + 1
    /\ last_call' = [ method |-> "addAliasColumnName", name |-> column_name,
                      identifier |-> "" ]
    /\ thrown' = "none"
    /\ alias_columns_names' = alias_columns_names \cup {column_name}
    /\ UNCHANGED << table_columns, columns_names,
                    column_name_to_column_identifier, first_identifier >>
    /\ UNCHANGED << vars, x_vars, b_vars, d_vars >>

\* Lines 64-67
getColumnsNames == columns_names

\* Lines 69-72
getColumns == table_columns

\* Lines 79-88: the identifier, or the exception thrown.
getColumnIdentifierOrThrow(column_name) ==
    IF column_name \notin DOMAIN column_name_to_column_identifier
    THEN [ thrown |-> "LOGICAL_ERROR" ]
    ELSE [ thrown |-> "none", value |-> column_name_to_column_identifier[column_name] ]

\* Lines 90-97: the identifier pointed to, or "nullptr".
getColumnIdentifierOrNull(column_name) ==
    IF column_name \notin DOMAIN column_name_to_column_identifier
    THEN "nullptr"
    ELSE column_name_to_column_identifier[column_name]

\* -------------------------------------------------------- specification
\* No disk and no transaction are in use.
NoDisk ==
    /\ disk = {}
    /\ ref_disk = {}
    /\ tx_ops = 0
    /\ disk_calls = 0
    /\ last_op = << >>
    /\ last_disk_call = << >>
    /\ commits = 0

\* No TableExpressionColumns is in use.
NoColumns ==
    /\ table_columns = << >>
    /\ columns_names = {}
    /\ alias_columns_names = {}
    /\ column_name_to_column_identifier = << >>
    /\ thrown = "none"
    /\ calls = 0
    /\ first_identifier = << >>
    /\ last_call = << >>

\* There is no second stage.
NoStageB ==
    /\ b_max_timestamp = 0
    /\ b_lateness_upper_bound = 0
    /\ b_max_watermark = 0
    /\ b_late_signals = {}
    /\ b_pc = "none"
    /\ b_dtor_pos = 0
    /\ b_consumed = 0
    /\ b_rows = EmptyBag

\* Lines 10-23: the fields of the stage after construction.
StageInit ==
    /\ block_header = Header
    /\ window_column_name = "w_end"
    /\ max_timestamp \in SeedValues
    /\ lateness_upper_bound \in BoundValues
    /\ max_watermark = 0
    /\ late_signals = {}
    /\ pc = "active"
    /\ dtor_pos = 0
    /\ cancelled = FALSE
    /\ store_calls = << >>
    /\ consumed = 0
    /\ emitted = 0
    /\ last_in = EmptyChunk
    /\ last_out = EmptyChunk
    /\ seen = {}
    /\ raised = "none"
    /\ after_dtor = 0

\* One stage whose header holds the window column as a UInt32 column.
Init ==
    /\ StageInit
    /\ header_types = HeaderTypes
    /\ NoStageB
    /\ NoDisk
    /\ NoColumns

Next ==
    \/ \E chunk \in Chunks : transform(chunk)
    \/ \E c \in BOOLEAN : DtorBegin(c)
    \/ DtorCall
    \/ DtorEnd

\* The store's intake calls return normally.
Spec == Init /\ [][Next]_vars

NextThrow ==
    \/ Next
    \/ DtorCallThrows

\* The store's intake calls may throw.
SpecThrow == Init /\ [][NextThrow]_vars

\* A stage constructed with any window column name and header types.
InitSchema ==
    /\ block_header = Header
    /\ window_column_name \in WindowColumnNames
    /\ header_types \in HeaderTypeChoices
    /\ max_timestamp \in SeedValues
    /\ lateness_upper_bound \in BoundValues
    /\ max_watermark = 0
    /\ late_signals = {}
    /\ pc = "active"
    /\ dtor_pos = 0
    /\ cancelled = FALSE
    /\ store_calls = << >>
    /\ consumed = 0
    /\ emitted = 0
    /\ last_in = EmptyChunk
    /\ last_out = EmptyChunk
    /\ seen = {}
    /\ raised = "none"
    /\ after_dtor = 0
    /\ NoStageB
    /\ NoDisk
    /\ NoColumns

NextSchema ==
    \/ Next
    \/ \E chunk \in Chunks : transformThrows(chunk)
    \/ \E chunk \in Chunks, data \in ReinterpretedData : transformWrongType(chunk, data)
    \/ DtorBeginAfterThrow

\* The header may lack the window column or hold it with another type.
SpecSchema == InitSchema /\ [][NextSchema]_<< vars, x_vars >>

\* Stage B as constructed, with these parameters.
StageBInit(seeds, bounds) ==
    /\ b_max_timestamp \in seeds
    /\ b_lateness_upper_bound \in bounds
    /\ b_max_watermark = 0
    /\ b_late_signals = {}
    /\ b_pc = "active"
    /\ b_dtor_pos = 0
    /\ b_consumed = 0
    /\ b_rows = EmptyBag

\* Two stages of different pipelines on one store; B's seed differs from A's.
InitTwo ==
    /\ StageInit
    /\ header_types = HeaderTypes
    /\ StageBInit({0, MaxTs + 2}, {0, 1})
    /\ NoDisk
    /\ NoColumns

\* Each stage gets at most one chunk of at most one row; their transform
\* calls and the calls of their destructors interleave freely.
NextTwo ==
    \/ \E chunk \in SmallChunks : consumed = 0 /\ transform(chunk)
    \/ \E c \in BOOLEAN : DtorBegin(c)
    \/ DtorCall
    \/ DtorEnd
    \/ \E chunk \in SmallChunks : b_consumed = 0 /\ B_transform(chunk)
    \/ B_DtorBegin
    \/ B_DtorCall
    \/ B_DtorEnd

SpecTwo == InitTwo /\ [][NextTwo]_<< vars, b_vars >>

\* Two stages constructed with the same parameters.
InitSame ==
    /\ StageInit
    /\ header_types = HeaderTypes
    /\ StageBInit({max_timestamp}, {lateness_upper_bound})
    /\ NoDisk
    /\ NoColumns

\* A gets its rows in one chunk, B gets rows in chunks of at most one row, in
\* any order, empty chunks among them.
NextSame ==
    \/ \E chunk \in Chunks : consumed = 0 /\ transform(chunk)
    \/ \E chunk \in SmallChunks : B_transform(chunk)

SpecSame == InitSame /\ [][NextSame]_<< vars, b_vars >>

\* No stage is looked at: one stage as constructed, never run.
StageUnused ==
    /\ StageInit
    /\ max_timestamp = 0
    /\ lateness_upper_bound = 0
    /\ header_types = HeaderTypes
    /\ NoStageB

\* Lines 11-13: a transaction over a disk in any state.
InitDisk ==
    /\ disk \in DiskStates
    /\ ref_disk = disk
    /\ tx_ops = 0
    /\ disk_calls = 0
    /\ last_op = << >>
    /\ last_disk_call = << >>
    /\ commits = 0
    /\ StageUnused
    /\ NoColumns

NextDisk ==
    \/ \E call \in Operations : Operation(call)
    \/ commit

SpecDisk == InitDisk /\ [][NextDisk]_d_vars

\* Lines 99-110: a TableExpressionColumns as default-constructed.
InitColumns ==
    /\ NoColumns
    /\ StageUnused
    /\ NoDisk

NextColumns ==
    \/ \E column \in NameAndTypePairs, column_identifier \in Identifiers :
           addColumn(column, column_identifier)
    \/ \E column \in NameAndTypePairs, column_identifier \in Identifiers :
           addColumnIfNotExists(column, column_identifier)
    \/ \E column_name \in Names : addAliasColumnName(column_name)

SpecColumns == InitColumns /\ [][NextColumns]_t_vars

NextLifecycle ==
    \/ Next
    \/ \E chunk \in Chunks : transformAfterDestruction(chunk)

\* The driver may call transform on a stage it has already destroyed.
SpecLifecycle == Init /\ [][NextLifecycle]_<< vars, x_vars >>

\* ------------------------------------------------------------- claims
\* The window-end column of a chunk as the driver passed it in.
WindowEnd(chunk) ==
    IF chunk.columns = << >> THEN << >> ELSE chunk.columns[2]

\* The store calls of one method received so far.
CallsOf(method) ==
    { i \in 1 .. Len(store_calls) : store_calls[i].method = method }

\* The position of a store method in the order max timestamp, watermark, late signals.
Rank(method) ==
    CASE method = "updateMaxTimestamp" -> 1
      [] method = "updateMaxWatermark" -> 2
      [] method = "addFireSignal" -> 3

\* The late-signal set the store was given.
DeliveredLate ==
    UNION { store_calls[i].arg : i \in CallsOf("addFireSignal") }

\* C1: after any sequence of chunks the watermark is the maximum of all
\* window-end values that occurred in them, or 0 when none occurred.
C1_MaxCorrectness ==
    max_watermark = Max(seen \cup {0})

\* C1 witness: several chunks, the maximum arrived before the last chunk.
C1_Witness ==
    /\ consumed >= 2
    /\ max_watermark = MaxTs
    /\ last_in.num_rows > 0
    /\ MaxTs \notin Range(WindowEnd(last_in))

\* C2: no step lowers the watermark.
C2_WatermarkMonotone ==
    [][max_watermark' >= max_watermark]_vars

\* C2 witness: a chunk whose values are all below the watermark was processed.
C2_Witness ==
    /\ consumed >= 2
    /\ last_in.num_rows > 0
    /\ \A v \in Range(WindowEnd(last_in)) : v < max_watermark

\* C3: x is in the late-signal set the store was given at teardown iff the
\* bound is not 0, x occurred in a processed chunk and x <= the bound.
C3_LateSetMembership ==
    pc = "destroyed" =>
        \A x \in Values :
            x \in DeliveredLate <=>
                /\ lateness_upper_bound # 0
                /\ x \in seen
                /\ x <= lateness_upper_bound

\* C3 witness: a teardown that delivered some values and left others out,
\* after a chunk that held the same value twice.
C3_Witness ==
    /\ pc = "destroyed"
    /\ DeliveredLate # {}
    /\ seen \ DeliveredLate # {}
    /\ last_in.num_rows = 2
    /\ WindowEnd(last_in)[1] = WindowEnd(last_in)[2]
    /\ WindowEnd(last_in)[1] \in DeliveredLate

\* C4 as stated: every late signal ts satisfies 0 < ts <= lateness_upper_bound.
C4_LateSignalsPositive ==
    \A ts \in late_signals : 0 < ts /\ ts <= lateness_upper_bound

\* A transform step whose chunk is not empty and holds only 0 as window end.
ZeroChunkStep ==
    /\ consumed' = consumed + 1
    /\ last_in'.num_rows > 0
    /\ Range(WindowEnd(last_in')) = {0}

\* C4 amended: every late signal ts satisfies ts <= lateness_upper_bound, and
\* the bound is not 0 when there is one; a chunk of zeros leaves the watermark
\* unchanged and inserts 0 when late tracking is enabled, nothing otherwise.
C4_LateSignalsWithinBound ==
    [][ /\ \A ts \in late_signals' :
               ts <= lateness_upper_bound' /\ lateness_upper_bound' # 0
        /\ ZeroChunkStep =>
               /\ max_watermark' = max_watermark
               /\ late_signals' = IF lateness_upper_bound # 0
                                  THEN late_signals \cup {0}
                                  ELSE late_signals ]_vars

\* C4 witness: late tracking is enabled and a chunk of zeros was processed.
C4_Witness ==
    /\ lateness_upper_bound # 0
    /\ consumed >= 1
    /\ last_in.num_rows > 0
    /\ Range(WindowEnd(last_in)) = {0}
    /\ 0 \in late_signals

\* C5: transform hands every chunk back as it got it (row count, columns,
\* values), one chunk out per chunk in.
C5_PassThrough ==
    /\ emitted = consumed
    /\ last_out = last_in

\* C5 witness: a chunk with several rows went through after another one.
C5_Witness ==
    /\ emitted >= 2
    /\ last_out.num_rows >= 2
    /\ Len(last_out.columns) = 2

\* C6: each store method is called at most once, and none while the stage
\* still takes chunks.
C6_TeardownOnly ==
    /\ \A m \in {"updateMaxTimestamp", "updateMaxWatermark", "addFireSignal"} :
           Cardinality(CallsOf(m)) <= 1
    /\ pc = "active" => store_calls = << >>

\* C6 witness: a stage that processed chunks and made all three calls.
C6_Witness ==
    /\ pc = "destroyed"
    /\ consumed >= 1
    /\ Len(store_calls) = 3

\* C7: the store calls come in the order max timestamp, watermark, late
\* signals, and no chunk is processed once a call was made.
C7_NotificationOrder ==
    /\ [](\A i, j \in 1 .. Len(store_calls) :
              i < j => Rank(store_calls[i].method) < Rank(store_calls[j].method))
    /\ [][store_calls # << >> => consumed' = consumed]_vars

\* C7 witness: all three calls were made, the watermark call in the middle.
C7_Witness ==
    /\ Len(store_calls) = 3
    /\ store_calls[2].method = "updateMaxWatermark"
    /\ consumed >= 2

\* C8: at teardown each call is made iff its condition holds (seed not 0,
\* watermark not 0, bound not 0) and carries the seed, the watermark, the
\* late-signal set; seed 0, bound 0 and no chunks: no call.
C8_TeardownConditions ==
    pc = "destroyed" =>
        /\ CallsOf("updateMaxTimestamp") # {} <=> max_timestamp # 0
        /\ CallsOf("updateMaxWatermark") # {} <=> max_watermark # 0
        /\ CallsOf("addFireSignal") # {} <=> lateness_upper_bound # 0
        /\ \A i \in CallsOf("updateMaxTimestamp") : store_calls[i].arg = max_timestamp
        /\ \A i \in CallsOf("updateMaxWatermark") : store_calls[i].arg = max_watermark
        /\ \A i \in CallsOf("addFireSignal") : store_calls[i].arg = late_signals
        /\ (max_timestamp = 0 /\ lateness_upper_bound = 0 /\ consumed = 0)
               => store_calls = << >>

\* C8 witness: chunks were processed, the seed is reported and the watermark,
\* still 0, is not.
C8_Witness ==
    /\ pc = "destroyed"
    /\ consumed >= 1
    /\ max_timestamp # 0
    /\ max_watermark = 0
    /\ CallsOf("updateMaxTimestamp") # {}
    /\ CallsOf("updateMaxWatermark") = {}

\* The calls due for the chunks processed so far, from the values they held.
ExpectedCalls ==
    LET wm   == Max(seen \cup {0})
        late == { x \in seen : x <= lateness_upper_bound }
    IN     (IF max_timestamp # 0
            THEN << Call("updateMaxTimestamp", max_timestamp) >> ELSE << >>)
        \o (IF wm # 0
            THEN << Call("updateMaxWatermark", wm) >> ELSE << >>)
        \o (IF lateness_upper_bound # 0
            THEN << Call("addFireSignal", late) >> ELSE << >>)

\* C9: a stage torn down after any prefix of its chunks, cancelled or not,
\* has made each due call exactly once, with the aggregates of that prefix.
C9_TeardownOnAnyPrefix ==
    pc = "destroyed" => store_calls = ExpectedCalls

\* C9 witness: a cancelled stage that had processed one chunk made its calls.
C9_Witness ==
    /\ pc = "destroyed"
    /\ cancelled
    /\ consumed = 1
    /\ Len(store_calls) >= 2

\* C10: when a store call of the teardown fails, the failure is swallowed and
\* the teardown goes on: once it is over, every call that was due has been
\* attempted.
C10_IndependentNotifications ==
    pc \in {"destroyed", "terminated"} =>
        \A k \in 1 .. Len(DestructorCalls) :
            CallsOf(DestructorCalls[k].method) # {}

C12_SchemaMismatchRaised ==
    [][ (~ SchemaFits /\ consumed' = consumed + 1) =>
            /\ raised' = "SchemaMismatch"
            /\ max_watermark' = max_watermark
            /\ late_signals' = late_signals
            /\ emitted' = emitted ]_<< vars, x_vars >>

\* C12 for the missing column alone (the half of the claim the code keeps).
C12_MissingColumnThrows ==
    [][ (~ HeaderHas(block_header, window_column_name) /\ consumed' = consumed + 1) =>
            /\ raised' = "SchemaMismatch"
            /\ max_watermark' = max_watermark
            /\ late_signals' = late_signals
            /\ emitted' = emitted ]_<< vars, x_vars >>

\* A store call made by stage A (B's calls carry a stage field).
IsCallOfA(c) == "stage" \notin DOMAIN c

IsCallOfB(c) == "stage" \in DOMAIN c

\* The calls due for the chunks stage B processed, from the values they held.
B_ExpectedCalls ==
    LET vals == BagToSet(b_rows)
        wm   == Max(vals \cup {0})
        late == { x \in vals : x <= b_lateness_upper_bound }
    IN     (IF b_max_timestamp # 0
            THEN << CallB("updateMaxTimestamp", b_max_timestamp) >> ELSE << >>)
        \o (IF wm # 0
            THEN << CallB("updateMaxWatermark", wm) >> ELSE << >>)
        \o (IF b_lateness_upper_bound # 0
            THEN << CallB("addFireSignal", late) >> ELSE << >>)

\* C13: with two stages interleaved on one store, the calls of each stage, in
\* the order the store got them, are the calls due for that stage's own
\* chunks and parameters: max timestamp, watermark, late signals.
C13_StagesIndependent ==
    /\ pc = "destroyed" => SelectSeq(store_calls, IsCallOfA) = ExpectedCalls
    /\ b_pc = "destroyed" => SelectSeq(store_calls, IsCallOfB) = B_ExpectedCalls

\* C13 witness: both stages processed different values and were torn down
\* with their store calls interleaved (A, B, A, ...).
C13_Witness ==
    /\ pc = "destroyed"
    /\ b_pc = "destroyed"
    /\ consumed = 1 /\ b_consumed = 1
    /\ max_watermark # b_max_watermark
    /\ late_signals # b_late_signals
    /\ Len(store_calls) >= 4
    /\ IsCallOfA(store_calls[1])
    /\ IsCallOfB(store_calls[2])
    /\ IsCallOfA(store_calls[3])

\* C15: two stages with the same parameters that were fed the same multiset
\* of window-end values, in any order and chunking, hold the same watermark
\* and late-signal set.
C15_ChunkingIndependent ==
    (b_rows = BagOfSeq(WindowEnd(last_in))) =>
        /\ max_watermark = b_max_watermark
        /\ late_signals = b_late_signals

\* C15 witness: A got two different values in one chunk, B got them one by
\* one in the other order with an empty chunk, and some value is late.
C15_Witness ==
    /\ consumed = 1
    /\ last_in.num_rows = 2
    /\ WindowEnd(last_in)[1] < WindowEnd(last_in)[2]
    /\ b_consumed = 3
    /\ b_rows = BagOfSeq(WindowEnd(last_in))
    /\ b_max_watermark = WindowEnd(last_in)[2]
    /\ late_signals # {}

\* C16: every late signal is at most the watermark, there is none when the
\* bound is 0, and no step removes one.
C16_LateSignalsBelowWatermark ==
    /\ [](\A ts \in late_signals : ts <= max_watermark)
    /\ [](lateness_upper_bound = 0 => late_signals = {})
    /\ [][late_signals \subseteq late_signals']_vars

\* C16 witness: the late-signal set grew over two chunks and the watermark
\* lies above all of it.
C16_Witness ==
    /\ consumed >= 2
    /\ Cardinality(late_signals) >= 2
    /\ Range(WindowEnd(last_in)) \cap late_signals # late_signals
    /\ \A ts \in late_signals : ts < max_watermark

\* C14: any sequence of operations run through the transaction leaves the
\* disk in the state the same operations leave it in when run on it directly.
C14_PassThrough ==
    disk = ref_disk

\* C17: the disk is called once per operation when the operation is called;
\* commit calls nothing and changes nothing on the disk.
C17_AppliedAtCall ==
    /\ [](disk_calls = tx_ops)
    /\ [][tx_ops' = tx_ops + 1 => disk' = DiskApply(disk, last_disk_call')]_d_vars
    /\ [][commits' # commits => (disk' = disk /\ disk_calls' = disk_calls)]_d_vars

\* C17 witness: operations changed the disk before and after a commit.
C17_Witness ==
    /\ commits = 1
    /\ tx_ops = 2
    /\ last_op.op = "writeFile"
    /\ last_op.path \in disk.files
    /\ Cardinality(disk.files) = 1

\* The names of the columns in the column list, in order.
ColumnListNames == [ i \in 1 .. Len(getColumns) |-> getColumns[i].name ]

\* C18: the column list holds no name twice, its names are the set of column
\* names, which is the key set of the name-to-identifier map; the identifier
\* lookups succeed exactly for the names in getColumnsNames().
C18_ContainersAgree ==
    /\ \A i, j \in 1 .. Len(getColumns) :
           getColumns[i].name = getColumns[j].name => i = j
    /\ getColumnsNames = Range(ColumnListNames)
    /\ getColumnsNames = DOMAIN column_name_to_column_identifier
    /\ \A name \in Names :
           /\ getColumnIdentifierOrThrow(name).thrown = "none" <=> name \in getColumnsNames
           /\ getColumnIdentifierOrNull(name) = "nullptr" <=> name \notin getColumnsNames

\* C18 witness: two columns were added, an alias name too, and an add was refused.
C18_Witness ==
    /\ Len(table_columns) = 2
    /\ alias_columns_names # {}
    /\ thrown = "LOGICAL_ERROR"
    /\ getColumnIdentifierOrNull(last_call.name) # "nullptr"

\* The call just made adds a column whose name was known before the call.
AddOfKnownName ==
    /\ calls' = calls + 1
    /\ last_call'.method \in { "addColumn", "addColumnIfNotExists" }
    /\ last_call'.name \in columns_names \cup alias_columns_names

\* C19: an add of a known name leaves the column list, the name sets and the
\* map as they were, addColumn with LOGICAL_ERROR and addColumnIfNotExists
\* silently; the identifier of a name stays that of its first successful add.
C19_KnownNameChangesNothing ==
    /\ [][AddOfKnownName =>
              /\ UNCHANGED << table_columns, columns_names, alias_columns_names,
                              column_name_to_column_identifier >>
              /\ thrown' = IF last_call'.method = "addColumn"
                           THEN "LOGICAL_ERROR" ELSE "none"]_t_vars
    /\ [][\A name \in DOMAIN column_name_to_column_identifier :
              /\ name \in DOMAIN column_name_to_column_identifier'
              /\ column_name_to_column_identifier'[name] =
                     column_name_to_column_identifier[name]]_t_vars
    /\ [](\A name \in DOMAIN column_name_to_column_identifier :
              column_name_to_column_identifier[name] = first_identifier[name])

\* C19 witness: addColumnIfNotExists was called with a new identifier for a
\* name that is a column name, after an add of an alias name was refused.
C19_Witness ==
    /\ calls >= 3
    /\ last_call.method = "addColumnIfNotExists"
    /\ last_call.name \in columns_names
    /\ getColumnIdentifierOrNull(last_call.name) # last_call.identifier
    /\ alias_columns_names \ columns_names # {}

====
